---- MODULE Spec2Model ----
(***************************************************************************)
(* Request Control background script (src/src/background.js): the rule     *)
(* listener registry, the resolution callback, the per-tab record store    *)
(* and the navigation-commit reconciliation (resetRecords).                *)
(***************************************************************************)
EXTENDS Integers, Sequences, FiniteSets

VARIABLES
    records,           \* Map tabId -> array of records (background.js:24)
    requestListeners,  \* per-rule listeners installed, in push order (background.js:22);
                       \* late: registered with the host after the catch-all listener
    catchAll,          \* number of registrations of requestControlListener on onBeforeRequest
    tabListeners,      \* removeRecords / resetRecords / getRecords registered (background.js:44-46)
    storage,           \* contents of browser.storage.local
    pending,           \* storage.local.get() calls of initOnChange not yet delivered to init
    marks,             \* controller: requestId -> marked request and the rules that marked it
    requests,          \* host: requestId -> the request in flight ("marked"), or its end
                       \*       ("resolved" | "passed")
    nextId,            \* next requestId the host hands out
    clock,             \* host clock, source of request.timeStamp
    calls,             \* calls to the notifier / host made by the latest handler
    last               \* the latest handler, its arguments and the state it started from

vars == <<records, requestListeners, catchAll, tabListeners, storage, pending,
          marks, requests, nextId, clock, calls, last>>

----------------------------------------------------------------------------
(* Bounds of the model                                                     *)

MaxWide == 6        \* longest stored sequence drawn over the wide alphabet
MaxDeep == 10       \* longest stored sequence drawn (over the narrow alphabet)
MaxReq == 2         \* requests intercepted in one run
MaxPending == 2     \* configuration reads in flight at once
MaxRules == 3       \* longest rule list drawn for the install runs

----------------------------------------------------------------------------
(* Values                                                                  *)

NoTarget == ""      \* request.redirectUrl undefined: a falsy target

Pass1LimitWide == 5 + 2
Pass1Limit == 5
Pass2LimitShort == Pass1Limit - 1
Pass2LimitWide == 5 + 2
Pass2Limit == 5

Qualifiers == {{}, {"server_redirect"}}
EnabledOptions == [disabled |-> FALSE, hasRules |-> TRUE, rules |-> <<>>]

NoRecord == [tabId |-> 0, type |-> "", url |-> "", target |-> NoTarget,
             timestamp |-> 0, rule |-> 0]

Idle == [handler |-> "none"]

Last(s) == s[Len(s)]
Front(s) == SubSeq(s, 1, Len(s) - 1)

----------------------------------------------------------------------------
(* resetRecords: the two bounded backward passes                           *)

IsAnchorExact(record, url, isServerRedirect) == record.target = url

IsAnchor(record, url, isServerRedirect) ==
    \/ record.target = url
    \/ isServerRedirect /\ record.target # NoTarget

RECURSIVE Pass1(_, _, _, _, _)
Pass1(i, tabRecords, lastRecord, url, isServerRedirect) ==
    IF i < Pass1Limit /\ Len(tabRecords) > 0
    THEN LET popped == Last(tabRecords)
         IN  IF IsAnchor(popped, url, isServerRedirect)
             THEN [i |-> i, tabRecords |-> Front(tabRecords),
                   lastRecord |-> popped, keep |-> <<popped>>]
             ELSE Pass1(i + 1, Front(tabRecords), popped, url, isServerRedirect)
    ELSE [i |-> i, tabRecords |-> tabRecords, lastRecord |-> lastRecord, keep |-> <<>>]

IsPredecessor(record, lastRecord) ==
    record.target # NoTarget /\ record.target = lastRecord.url

RECURSIVE Pass2(_, _, _, _)
Pass2(j, tabRecords, lastRecord, keep) ==
    IF j < Pass2Limit /\ Len(tabRecords) > 0
    THEN LET record == Last(tabRecords)
         IN  IF IsPredecessor(record, lastRecord)
             THEN Pass2(j + 1, Front(tabRecords), record, <<record>> \o keep)
             ELSE Pass2(j + 1, Front(tabRecords), lastRecord, keep)
    ELSE [j |-> j, tabRecords |-> tabRecords, keep |-> keep]

IsServerRedirect(details) == "server_redirect" \in details.transitionQualifiers

Reconcile(tabRecords, details) ==
    LET p1 == Pass1(0, tabRecords, NoRecord, details.url, IsServerRedirect(details))
        p2 == Pass2(0, p1.tabRecords, p1.lastRecord, p1.keep)
    IN  [keep |-> p2.keep, i |-> p1.i, j |-> p2.j,
         found |-> Len(p1.keep) > 0,
         popped1 |-> Len(tabRecords) - Len(p1.tabRecords),
         popped2 |-> Len(p1.tabRecords) - Len(p2.tabRecords)]

NotifyCall(tabId, rule, count) ==
    [op |-> "notify", tabId |-> tabId, rule |-> rule, count |-> count]
ClearCall(tabId) == [op |-> "clear", tabId |-> tabId, rule |-> 0, count |-> 0]

RemoveKey(map, key) == [k \in DOMAIN map \ {key} |-> map[k]]

SetKeyAll(map, key, value) == [k \in DOMAIN map \cup {key} |-> value]

SetKey(map, key, value) ==
    [k \in DOMAIN map \cup {key} |-> IF k = key THEN value ELSE map[k]]

KeepNotifyOldest(tabId, keep) == NotifyCall(tabId, keep[1].rule, Len(keep))

KeepNotify(tabId, keep) == NotifyCall(tabId, Last(keep).rule, Len(keep))

ShouldResetAnyFrame(map, tabId, frameId) == tabId \in DOMAIN map

(* the guard of resetRecords: a top-level commit for a tab that has records *)
ShouldReset(map, tabId, frameId) == frameId = 0 /\ tabId \in DOMAIN map

ResetOutcomeLeaveEmpty(map, tabId, keep) ==
    [records |-> SetKey(map, tabId, keep),
     calls |-> IF Len(keep) > 0 THEN <<KeepNotify(tabId, keep)>>
               ELSE <<ClearCall(tabId)>>]

(* the outcome of resetRecords: store keep and notify, or delete and clear *)
ResetOutcome(map, tabId, keep) ==
    IF Len(keep) > 0
    THEN [records |-> SetKey(map, tabId, keep),
          calls |-> <<KeepNotify(tabId, keep)>>]
    ELSE [records |-> RemoveKey(map, tabId),
          calls |-> <<ClearCall(tabId)>>]

(* webNavigation.onCommitted -> resetRecords(details).  last.repeat tells
   that the handler that ran just before was a reconciliation for the very
   same details. *)
ResetRecords(tabId, frameId, url, transitionQualifiers) ==
    /\ tabListeners
    /\ LET details == [tabId |-> tabId, frameId |-> frameId, url |-> url,
                       transitionQualifiers |-> transitionQualifiers]
           repeat == /\ last.handler = "resetRecords"
                     /\ last.ran
                     /\ last.details = details
       IN  IF ShouldReset(records, tabId, frameId)
           THEN LET r == Reconcile(records[tabId], details)
                    o == ResetOutcome(records, details.tabId, r.keep)
                IN  /\ last' = [handler |-> "resetRecords", details |-> details,
                                ran |-> TRUE, repeat |-> repeat, store |-> records,
                                before |-> records[details.tabId],
                                popped1 |-> r.popped1, popped2 |-> r.popped2,
                                found |-> r.found]
                    /\ records' = o.records
                    /\ calls' = o.calls
           ELSE /\ last' = [handler |-> "resetRecords", ran |-> FALSE,
                            repeat |-> repeat, tabId |-> tabId,
                            frameId |-> frameId, store |-> records]
                /\ calls' = <<>>
                /\ UNCHANGED records
    /\ UNCHANGED <<requestListeners, catchAll, tabListeners, storage, pending,
                   marks, requests, nextId, clock>>

----------------------------------------------------------------------------
(* The record store                                                        *)

EmptyMap == <<>>

RemoveRecordsAll(tabId) ==
    /\ tabListeners
    /\ records' = EmptyMap
    /\ calls' = <<>>
    /\ last' = [handler |-> "removeRecords", tabId |-> tabId, before |-> records]
    /\ UNCHANGED <<requestListeners, catchAll, tabListeners, storage, pending,
                   marks, requests, nextId, clock>>

(* tabs.onRemoved -> removeRecords(tabId) *)
RemoveRecords(tabId) ==
    /\ tabListeners
    /\ records' = RemoveKey(records, tabId)
    /\ calls' = <<>>
    /\ last' = [handler |-> "removeRecords", tabId |-> tabId, before |-> records]
    /\ UNCHANGED <<requestListeners, catchAll, tabListeners, storage, pending,
                   marks, requests, nextId, clock>>

AddRecordFront(map, record) ==
    LET recordsForTab == IF record.tabId \in DOMAIN map THEN map[record.tabId] ELSE <<>>
    IN  [records |-> SetKey(map, record.tabId, <<record>> \o recordsForTab),
         count |-> Len(recordsForTab) + 1]

AddRecord(map, record) ==
    LET recordsForTab == IF record.tabId \in DOMAIN map THEN map[record.tabId] ELSE <<>>
    IN  [records |-> SetKey(map, record.tabId, Append(recordsForTab, record)),
         count |-> Len(recordsForTab) + 1]

----------------------------------------------------------------------------
(* Interception: the per-rule hooks mark, the catch-all hook resolves      *)

TabsUpdateCall(tabId) == [op |-> "tabs.update", tabId |-> tabId, rule |-> 0, count |-> 0]

(* controller.markRequest(details, rule): the request is remembered with the
   rules that marked it *)
MarkRequest(m, details, rule) ==
    SetKey(m, details.requestId,
           [tabId |-> details.tabId, type |-> details.type, url |-> details.url,
            timeStamp |-> details.timeStamp,
            rules |-> IF details.requestId \in DOMAIN m
                      THEN m[details.requestId].rules \cup {rule}
                      ELSE {rule}])

(* The host calls the listeners of a request in registration order: the
   per-rule listeners registered before the catch-all, the catch-all, then the
   per-rule listeners registered after it (late). *)
Matches(k, url, late) ==
    requestListeners[k].late = late /\ url \in requestListeners[k].urls

(* the k-th listener is the first one from position from on that the host
   has to call for url, among the late or among the other listeners *)
IsNextToCall(k, from, url, late) ==
    /\ k >= from
    /\ Matches(k, url, late)
    /\ \A j \in from..(k - 1) : ~Matches(j, url, late)

(* the host's view of a request whose catch-all call is over: kept with its
   details while a late listener is still to be called *)
Finished(status, tabId, url, timeStamp, from) ==
    IF \E m \in from..Len(requestListeners) : Matches(m, url, TRUE)
    THEN [status |-> status, tabId |-> tabId, url |-> url,
          timeStamp |-> timeStamp, next |-> from]
    ELSE [status |-> status]

(* the k-th per-rule listener is called for request id: a new request
   (id = nextId), whose catch-all call is over already and found no mark when
   only late listeners match, or a request for which the host has called the
   listeners before the k-th; line 75 marks the request in either case *)
RuleListener(k, id, tabId, url, timeStamp, maxReq) ==
    /\ k \in 1..Len(requestListeners)
    /\ IF id = nextId
       THEN /\ nextId <= maxReq
            /\ timeStamp \in clock..(clock + 1)
            /\ IF \E m \in 1..Len(requestListeners) : Matches(m, url, FALSE)
               THEN /\ IsNextToCall(k, 1, url, FALSE)
                    /\ requests' = SetKey(requests, id,
                                          [status |-> "marked", tabId |-> tabId,
                                           url |-> url, timeStamp |-> timeStamp,
                                           next |-> k + 1])
               ELSE /\ IsNextToCall(k, 1, url, TRUE)
                    /\ requests' = SetKey(requests, id,
                                          Finished("passed", tabId, url, timeStamp,
                                                   k + 1))
            /\ nextId' = nextId + 1
            /\ clock' = timeStamp
       ELSE /\ id \in DOMAIN requests
            /\ "next" \in DOMAIN requests[id]
            /\ requests[id].next > 0
            /\ tabId = requests[id].tabId
            /\ url = requests[id].url
            /\ timeStamp = requests[id].timeStamp
            /\ IF requests[id].status = "marked"
               THEN /\ IsNextToCall(k, requests[id].next, url, FALSE)
                    /\ requests' = [requests EXCEPT ![id].next = k + 1]
               ELSE /\ IsNextToCall(k, requests[id].next, url, TRUE)
                    /\ requests' = [requests EXCEPT ![id] =
                                       Finished(requests[id].status, tabId, url,
                                                timeStamp, k + 1)]
            /\ UNCHANGED <<nextId, clock>>
    /\ marks' = MarkRequest(marks,
                            [requestId |-> id, tabId |-> tabId, type |-> "main_frame",
                             url |-> url, timeStamp |-> timeStamp],
                            requestListeners[k].rule)
    /\ calls' = <<>>
    /\ last' = [handler |-> "listener"]
    /\ UNCHANGED <<records, requestListeners, catchAll, tabListeners, storage, pending>>

(* the host's view of request r once its catch-all call is over *)
After(r, status) ==
    IF r.next > 0
    THEN Finished(status, r.tabId, r.url, r.timeStamp, r.next)
    ELSE [status |-> status]

(* the catch-all hook fires for a request in flight, after the per-rule
   listeners registered before it; controller.resolve hands the request, the
   rule it resolved by (one of the rules that marked it) and the redirect
   destination to the callback *)
RequestControlListener(id, redirectUrl, updateTab) ==
    /\ id \in DOMAIN requests
    /\ requests[id].status = "marked"
    /\ catchAll > 0
    /\ requests[id].next > 0
          => \A m \in requests[id].next..Len(requestListeners) :
                 ~Matches(m, requests[id].url, FALSE)
    /\ IF id \in DOMAIN marks
       THEN \E rule \in marks[id].rules :
            LET request == marks[id]
                added == AddRecord(records,
                                   [tabId |-> request.tabId, type |-> request.type,
                                    url |-> request.url, target |-> redirectUrl,
                                    timestamp |-> request.timeStamp,
                                    rule |-> rule])
            IN  /\ records' = added.records
                /\ calls' = <<NotifyCall(request.tabId, rule, added.count)>>
                            \o (IF updateTab THEN <<TabsUpdateCall(request.tabId)>>
                                ELSE <<>>)
                /\ marks' = RemoveKey(marks, id)
                /\ requests' = [requests EXCEPT ![id] = After(requests[id], "resolved")]
                /\ last' = [handler |-> "requestControlListener", requestId |-> id,
                            tabId |-> request.tabId, rule |-> rule,
                            url |-> request.url, target |-> redirectUrl,
                            timestamp |-> request.timeStamp,
                            store |-> records,
                            had |-> request.tabId \in DOMAIN records,
                            before |-> IF request.tabId \in DOMAIN records
                                       THEN records[request.tabId] ELSE <<>>]
       ELSE /\ requests' = [requests EXCEPT ![id] = After(requests[id], "passed")]
            /\ calls' = <<>>
            /\ last' = [handler |-> "unmarked"]
            /\ UNCHANGED <<records, marks>>
    /\ UNCHANGED <<requestListeners, catchAll, tabListeners, storage, pending,
                   nextId, clock>>

(* the host reaches the blocking phase of a marked request while the
   catch-all hook is not installed: the request proceeds unresolved *)
PassThrough(id) ==
    /\ id \in DOMAIN requests
    /\ requests[id].status = "marked"
    /\ catchAll = 0
    /\ requests' = [requests EXCEPT ![id] = [status |-> "passed"]]
    /\ calls' = <<>>
    /\ last' = [handler |-> "host"]
    /\ UNCHANGED <<records, requestListeners, catchAll, tabListeners, storage,
                   pending, marks, nextId, clock>>

----------------------------------------------------------------------------
(* Configuration: init, initOnChange, addRuleListeners                     *)

ErrorCall == [op |-> "error", tabId |-> 0, rule |-> 0, count |-> 0]
EnabledStateCall == [op |-> "enabledState", tabId |-> 0, rule |-> 0, count |-> 0]
DisabledStateCall == [op |-> "disabledState", tabId |-> 0, rule |-> 0, count |-> 0]

Installable(data) == data.active /\ data.valid
Failing(data) == data.active /\ ~data.valid

(* the listener closes over the rule createRule built and is filtered by its
   urls; late: the host has the catch-all listener registered already, so the
   new listener comes after it in the host's order *)
Listener(data, late) == [rule |-> data.uuid, urls |-> data.pattern, late |-> late]

RECURSIVE Listeners(_, _)
Listeners(rules, late) ==
    IF rules = <<>> THEN <<>>
    ELSE <<Listener(Head(rules), late)>> \o Listeners(Tail(rules), late)

RECURSIVE Errors(_)
Errors(rules) ==
    IF rules = <<>> THEN <<>>
    ELSE (IF Failing(Head(rules)) THEN <<ErrorCall>> ELSE <<>>) \o Errors(Tail(rules))

RECURSIVE UntilFailure(_)
UntilFailure(rules) ==
    IF rules = <<>> \/ Failing(Head(rules)) THEN <<>>
    ELSE <<Head(rules)>> \o UntilFailure(Tail(rules))

AddRuleListenersAbort(listeners, catchAllCount, options) ==
    IF ~options.hasRules
    THEN [requestListeners |-> listeners, catchAll |-> catchAllCount, calls |-> <<>>]
    ELSE [requestListeners |->
              listeners \o Listeners(SelectSeq(UntilFailure(options.rules), Installable),
                                     catchAllCount > 0),
          catchAll |-> 1,
          calls |-> IF Errors(options.rules) = <<>> THEN <<>> ELSE <<ErrorCall>>]

AddRuleListenersNeedsRule(listeners, catchAllCount, options) ==
    IF ~options.hasRules \/ SelectSeq(options.rules, Installable) = <<>>
    THEN [requestListeners |-> listeners, catchAll |-> catchAllCount,
          calls |-> IF options.hasRules THEN Errors(options.rules) ELSE <<>>]
    ELSE [requestListeners |-> listeners \o Listeners(SelectSeq(options.rules, Installable),
                                                  catchAllCount > 0),
          catchAll |-> 1,
          calls |-> Errors(options.rules)]

(* addRuleListeners(rules) on the registry (listeners, catch-all count).
   Every per-rule listener is a new closure, so each call adds new hooks;
   requestControlListener is one function, and the host ignores addListener
   for a function that is already registered, so its count never exceeds 1. *)
AddRuleListeners(listeners, catchAllCount, options) ==
    IF ~options.hasRules
    THEN [requestListeners |-> listeners, catchAll |-> catchAllCount, calls |-> <<>>]
    ELSE [requestListeners |-> listeners \o Listeners(SelectSeq(options.rules, Installable),
                                                  catchAllCount > 0),
          catchAll |-> 1,
          calls |-> Errors(options.rules)]

InitResultClearing(options, listeners, catchAllCount, recs, m, tabL) ==
    IF options.disabled
    THEN [requestListeners |-> listeners, catchAll |-> catchAllCount,
          records |-> EmptyMap, marks |-> EmptyMap, tabListeners |-> FALSE,
          calls |-> <<DisabledStateCall>>]
    ELSE LET a == AddRuleListeners(listeners, catchAllCount, options)
         IN  [requestListeners |-> a.requestListeners, catchAll |-> a.catchAll,
              records |-> EmptyMap, marks |-> m, tabListeners |-> TRUE,
              calls |-> <<EnabledStateCall>> \o a.calls]

(* the state init(options) leaves, from a given registry and store *)
InitResult(options, listeners, catchAllCount, recs, m, tabL) ==
    IF options.disabled
    THEN [requestListeners |-> listeners, catchAll |-> catchAllCount,
          records |-> EmptyMap, marks |-> EmptyMap, tabListeners |-> FALSE,
          calls |-> <<DisabledStateCall>>]
    ELSE LET a == AddRuleListeners(listeners, catchAllCount, options)
         IN  [requestListeners |-> a.requestListeners, catchAll |-> a.catchAll,
              records |-> recs, marks |-> m, tabListeners |-> TRUE,
              calls |-> <<EnabledStateCall>> \o a.calls]

Unread == [read |-> FALSE, options |-> EnabledOptions]

(* storage.onChanged -> initOnChange(), with c the contents of storage after
   the change (c = storage when the change is in a field the configuration
   record does not carry).  The removed per-rule listeners are not called any
   more for the requests in flight. *)
StorageChange(c, maxPending) ==
    /\ Len(pending) < maxPending
    /\ storage' = c
    /\ requestListeners' = <<>>
    /\ catchAll' = 0
    /\ requests' = [id \in DOMAIN requests |->
                       IF requests[id].status = "marked"
                       THEN [requests[id] EXCEPT !.next = 0]
                       ELSE [status |-> requests[id].status]]
    /\ pending' = Append(pending, Unread)
    /\ calls' = <<>>
    /\ last' = [handler |-> "initOnChange", store |-> records]
    /\ UNCHANGED <<records, tabListeners, marks, nextId, clock>>

(* the host performs the oldest outstanding storage.local.get() *)
StorageRead ==
    /\ \E k \in 1..Len(pending) :
          /\ ~pending[k].read
          /\ \A m \in 1..(k - 1) : pending[m].read
          /\ pending' = [pending EXCEPT ![k] = [read |-> TRUE, options |-> storage]]
    /\ calls' = <<>>
    /\ last' = [handler |-> "host"]
    /\ UNCHANGED <<records, requestListeners, catchAll, tabListeners, storage,
                   marks, requests, nextId, clock>>

(* the promise of the oldest storage.local.get() resolves: init(options) *)
InitOptions ==
    /\ pending # <<>>
    /\ Head(pending).read
    /\ LET options == Head(pending).options
           r == InitResult(options, requestListeners, catchAll, records, marks,
                           tabListeners)
       IN  /\ requestListeners' = r.requestListeners
           /\ catchAll' = r.catchAll
           /\ records' = r.records
           /\ marks' = r.marks
           /\ tabListeners' = r.tabListeners
           /\ calls' = r.calls
           /\ last' = [handler |-> "init", options |-> options,
                       listenersBefore |-> Len(requestListeners),
                       catchAllBefore |-> catchAll, store |-> records]
    /\ pending' = Tail(pending)
    /\ UNCHANGED <<storage, requests, nextId, clock>>

----------------------------------------------------------------------------
(* The system: started with one of SysConfigs, then requests, navigation   *)
(* commits, tab closes and configuration changes in any order.             *)

RuleA == [uuid |-> 1, active |-> TRUE, valid |-> TRUE, pattern |-> {"A"}]
RuleB == [uuid |-> 2, active |-> TRUE, valid |-> TRUE, pattern |-> {"A", "B"}]
RuleBad == [uuid |-> 3, active |-> TRUE, valid |-> FALSE, pattern |-> {"A"}]

SysConfigs ==
    {[disabled |-> FALSE, hasRules |-> TRUE, rules |-> <<RuleA, RuleBad, RuleB>>],
     [disabled |-> FALSE, hasRules |-> TRUE, rules |-> <<RuleA>>],
     [disabled |-> TRUE, hasRules |-> TRUE, rules |-> <<RuleA>>]}

Tabs == {1, 2}
SysTabs == {1}
Urls == {"A", "B"}
Targets == {NoTarget, "B"}
TimeStamps == {0, 1}

(* The state the startup (background.js:27-31) leaves: c is the configuration
   the startup read answered and init applied, s the contents of storage when
   initOnChange gets registered.  A change of storage before that point
   reaches no handler, so s may differ from c with no reload pending. *)
Started(c, s) ==
    LET r == InitResult(c, <<>>, 0, EmptyMap, EmptyMap, FALSE)
    IN  /\ storage = s
        /\ requestListeners = r.requestListeners
        /\ catchAll = r.catchAll
        /\ tabListeners = r.tabListeners
        /\ records = r.records
        /\ marks = r.marks
        /\ pending = <<>>
        /\ requests = <<>>
        /\ nextId = 1
        /\ clock = 0
        /\ calls = r.calls
        /\ last = Idle

Init == \E c \in SysConfigs, s \in SysConfigs : Started(c, s)

Next ==
    \/ \E k \in 1..Len(requestListeners), id \in 1..MaxReq, t \in SysTabs, u \in Urls :
           RuleListener(k, id, t, u, clock, MaxReq)
    \/ \E id \in 1..MaxReq, target \in Targets, updateTab \in BOOLEAN :
           /\ updateTab => target # NoTarget
           /\ RequestControlListener(id, target, updateTab)
    \/ \E id \in 1..MaxReq : PassThrough(id)
    \/ \E t \in SysTabs : RemoveRecords(t)
    \/ \E t \in SysTabs, f \in {0, 1}, u \in Urls, tq \in Qualifiers :
           ResetRecords(t, f, u, tq)
    \/ \E c \in SysConfigs : StorageChange(c, MaxPending)
    \/ StorageRead
    \/ InitOptions

Spec == Init /\ [][Next]_vars

----------------------------------------------------------------------------
(* The record store under a fixed enabled configuration: requests,         *)
(* navigation commits and tab closes on several tabs.                      *)

RuleOnlyB == [uuid |-> 2, active |-> TRUE, valid |-> TRUE, pattern |-> {"B"}]
StoreOptions == [disabled |-> FALSE, hasRules |-> TRUE, rules |-> <<RuleA, RuleOnlyB>>]

StoreStorages == {StoreOptions} \cup {c \in SysConfigs : c.disabled}

InitStore == \E s \in StoreStorages : Started(StoreOptions, s)

NextStore ==
    \/ \E k \in 1..Len(requestListeners), id \in 1..MaxReq, t \in Tabs, u \in Urls,
          ts \in TimeStamps :
           RuleListener(k, id, t, u, ts, MaxReq)
    \/ \E id \in 1..MaxReq, target \in Targets :
           RequestControlListener(id, target, FALSE)
    \/ \E t \in Tabs : RemoveRecords(t)
    \/ \E t \in Tabs, f \in {0, 1}, u \in Urls, tq \in Qualifiers :
           ResetRecords(t, f, u, tq)

SpecStore == InitStore /\ [][NextStore]_vars

----------------------------------------------------------------------------
(* Install runs: the state right after initOnChange (no hook installed,    *)
(* one configuration read outstanding) for every configuration whose rule  *)
(* list has up to MaxRules rules, each active or not, compiling or not.    *)

RichRule(kind, idx) ==
    [uuid |-> idx, active |-> kind[1], valid |-> kind[2], pattern |-> {"A"}]

InitInstall ==
    /\ \E d \in BOOLEAN, hr \in BOOLEAN, n \in 0..MaxRules :
         \E f \in [1..n -> BOOLEAN \X BOOLEAN] :
           storage = [disabled |-> d, hasRules |-> hr,
                      rules |-> IF hr THEN [k \in 1..n |-> RichRule(f[k], k)] ELSE <<>>]
    /\ tabListeners \in BOOLEAN
    /\ requestListeners = <<>>
    /\ catchAll = 0
    /\ records = EmptyMap
    /\ marks = EmptyMap
    /\ pending = <<Unread>>
    /\ requests = <<>>
    /\ nextId = 1
    /\ clock = 0
    /\ calls = <<>>
    /\ last = [handler |-> "initOnChange", store |-> EmptyMap]

NextInstall ==
    \/ StorageRead
    \/ InitOptions

SpecInstall == InitInstall /\ [][NextInstall]_vars

----------------------------------------------------------------------------
(* Reconciliation runs: one tab whose stored sequence is any sequence of   *)
(* up to MaxWide records over WidePairs, or of up to MaxDeep records over   *)
(* NarrowPairs, then navigation commits.                                   *)

WidePairs == {<<"A", "B">>, <<"B", "A">>, <<"A", NoTarget>>, <<"B", NoTarget>>}
NarrowPairs == {<<"A", "B">>, <<"B", "A">>}
DeepPairs(n) == IF n <= MaxWide THEN WidePairs ELSE NarrowPairs
DeepUrls == {"A", "B", "D"}

DeepRecord(pair, idx) ==
    [tabId |-> 1, type |-> "main_frame", url |-> pair[1], target |-> pair[2],
     timestamp |-> idx, rule |-> 1 + (idx % 2)]

InitReset ==
    /\ \E n \in 1..MaxDeep : \E f \in [1..n -> DeepPairs(n)] :
           records = [t \in {1} |-> [k \in 1..n |-> DeepRecord(f[k], k)]]
    /\ requestListeners = <<>>
    /\ catchAll = 1
    /\ tabListeners = TRUE
    /\ storage = EnabledOptions
    /\ pending = <<>>
    /\ marks = <<>>
    /\ requests = <<>>
    /\ nextId = 1
    /\ clock = 0
    /\ calls = <<>>
    /\ last = Idle

NextReset ==
    \E url \in DeepUrls, tq \in Qualifiers :
        ResetRecords(1, 0, url, tq)

SpecReset == InitReset /\ [][NextReset]_vars

----------------------------------------------------------------------------
(* Reload runs: the program with one of SysConfigs applied and some records *)
(* stored, then configuration changes, reads and installs only.            *)

StoredRecord(tabId, url, target, timestamp) ==
    [tabId |-> tabId, type |-> "main_frame", url |-> url, target |-> target,
     timestamp |-> timestamp, rule |-> 1]

ReloadStores ==
    {EmptyMap,
     [t \in {1} |-> <<StoredRecord(t, "A", "B", 0)>>],
     [t \in {1} |-> <<StoredRecord(t, "A", "B", 0), StoredRecord(t, "B", NoTarget, 1)>>],
     [t \in {1, 2} |-> <<StoredRecord(t, "A", NoTarget, 0)>>]}

InitReload ==
    /\ \E c \in SysConfigs, store \in ReloadStores :
           LET r == InitResult(c, <<>>, 0, EmptyMap, EmptyMap, FALSE)
           IN  /\ requestListeners = r.requestListeners
               /\ catchAll = r.catchAll
               /\ tabListeners = r.tabListeners
               /\ records = IF c.disabled THEN EmptyMap ELSE store
               /\ marks = r.marks
    /\ storage \in SysConfigs
    /\ pending = <<>>
    /\ requests = <<>>
    /\ nextId = 1
    /\ clock = 0
    /\ calls = <<>>
    /\ last = Idle

NextReload ==
    \/ \E c \in SysConfigs : StorageChange(c, MaxPending)
    \/ StorageRead
    \/ InitOptions

SpecReload == InitReload /\ [][NextReload]_vars

----------------------------------------------------------------------------
(* Properties of the reconciliation (checked under SpecReset)              *)

Reconciled == last.handler = "resetRecords" /\ last.ran
CommitTab == last.details.tabId
CommitUrl == last.details.url
CommitIsRedirect == "server_redirect" \in last.details.transitionQualifiers

(* the positions of the newest 5 records of a sequence *)
Newest5(seq) == {k \in 1..Len(seq) : k > Len(seq) - 5}

AnchorCondition(record) ==
    \/ record.target = CommitUrl
    \/ CommitIsRedirect /\ record.target # ""

FullyLinked(seq) == \A k \in 1..(Len(seq) - 1) : seq[k].target = seq[k + 1].url

(* C1: when none of the newest 5 records satisfies the anchor condition,   *)
(* the reconciliation leaves the tab without a record sequence and the     *)
(* notifier receives clear(tabId) and no notify, whatever older records    *)
(* exist.                                                                   *)
C1_NoAnchorClearsTab ==
    (Reconciled /\ \A k \in Newest5(last.before) : ~AnchorCondition(last.before[k]))
        => /\ CommitTab \notin DOMAIN records
           /\ calls = <<ClearCall(CommitTab)>>

(* C2: a fully linked chain of at most 6 records whose newest target is    *)
(* the committed URL, not a server redirect: the sequence is kept whole in *)
(* its order and notify carries the newest record's rule and the length.   *)
C2_LinkedChainKept ==
    (/\ Reconciled
     /\ ~CommitIsRedirect
     /\ Len(last.before) <= 6
     /\ FullyLinked(last.before)
     /\ Last(last.before).target = CommitUrl)
        => /\ CommitTab \in DOMAIN records
           /\ records[CommitTab] = last.before
           /\ calls = <<NotifyCall(CommitTab, Last(last.before).rule,
                                   Len(last.before))>>

C2_Witness ==
    /\ Reconciled
    /\ ~CommitIsRedirect
    /\ Len(last.before) = 6
    /\ FullyLinked(last.before)
    /\ Last(last.before).target = CommitUrl
    /\ Len(records[CommitTab]) = 6

(* C3: on a server-redirect commit the anchor is the newest record, among  *)
(* the newest 5, that has a non-empty target or whose target is the        *)
(* committed URL, also when no target equals the committed URL; the        *)
(* one-record sequence is kept as it is with count 1.                      *)
C3_ServerRedirectAnchor ==
    (/\ Reconciled
     /\ CommitIsRedirect
     /\ \E k \in Newest5(last.before) : AnchorCondition(last.before[k]))
        => LET a == CHOOSE k \in Newest5(last.before) :
                        /\ AnchorCondition(last.before[k])
                        /\ \A m \in Newest5(last.before) :
                               m > k => ~AnchorCondition(last.before[m])
           IN  /\ last.found
               /\ last.popped1 = Len(last.before) - a + 1
               /\ CommitTab \in DOMAIN records
               /\ Last(records[CommitTab]) = last.before[a]
               /\ calls = <<NotifyCall(CommitTab, last.before[a].rule,
                                       Len(records[CommitTab]))>>
               /\ Len(last.before) = 1
                    => records[CommitTab] = last.before /\ calls[1].count = 1

C3_Witness ==
    /\ Reconciled
    /\ CommitIsRedirect
    /\ Len(last.before) = 1
    /\ last.before[1].target \notin {"", CommitUrl}
    /\ records[CommitTab] = last.before

(* C4: pass 1 examines at most 5 records and pass 2 at most 5 further      *)
(* ones; the anchor pass 1 adopts is one of the newest 5 records, so a     *)
(* record that satisfies the anchor condition deeper than that is never    *)
(* adopted.                                                                 *)
C4_BoundedPasses ==
    Reconciled
        => /\ last.popped1 <= 5
           /\ last.popped2 <= 5
           /\ last.found
                => /\ Len(last.before) - last.popped1 + 1 \in Newest5(last.before)
                   /\ AnchorCondition(last.before[Len(last.before) - last.popped1 + 1])
           /\ (\A k \in Newest5(last.before) : ~AnchorCondition(last.before[k]))
                => ~last.found

C4_Witness ==
    /\ Reconciled
    /\ Len(last.before) = 10
    /\ \A k \in 1..10 : AnchorCondition(last.before[k]) <=> k = 4
    /\ ~last.found
    /\ last.popped1 = 5
    /\ last.popped2 = 5

----------------------------------------------------------------------------
(* Properties of the configuration life cycle (checked under Spec)         *)

(* C5: whenever no configuration reload is pending and the current         *)
(* configuration has disabled = true, no interception hook (per-rule or    *)
(* catch-all) is installed and the record store is empty.                  *)
C5_DisabledMeansNoHooks ==
    (pending = <<>> /\ storage.disabled)
        => /\ Len(requestListeners) = 0
           /\ catchAll = 0
           /\ DOMAIN records = {}

(* C9: a request marked by a per-rule hook is either still waiting for the *)
(* catch-all hook with its mark kept, or it has been resolved and its      *)
(* record appended; it never leaves unresolved, also when the listeners    *)
(* are torn down in between.                                               *)
C9_MarkedRequestResolved ==
    \A id \in DOMAIN requests :
        \/ requests[id].status = "resolved"
        \/ requests[id].status = "marked" /\ id \in DOMAIN marks

----------------------------------------------------------------------------
(* Properties of one install (checked under SpecInstall)                   *)

Installed == last.handler = "init" /\ ~last.options.disabled

ErrorCalls == {k \in 1..Len(calls) : calls[k].op = "error"}

(* C6: in one install a rule that fails to compile is skipped and reported *)
(* through the notifier's error, every other active rule that compiles     *)
(* gets its hook (as many new per-rule hooks as active compiling rules, in *)
(* rule order, none for inactive rules), and the catch-all hook is         *)
(* installed afterwards.                                                   *)
C6_BadRuleSkipped ==
    (Installed /\ last.options.hasRules)
        => LET rules == last.options.rules
               good == SelectSeq(rules, LAMBDA d : d.active /\ d.valid)
               bad == SelectSeq(rules, LAMBDA d : d.active /\ ~d.valid)
               new == SubSeq(requestListeners, last.listenersBefore + 1,
                             Len(requestListeners))
           IN  /\ Len(new) = Len(good)
               /\ \A k \in 1..Len(new) : new[k].rule = good[k].uuid
               /\ Cardinality(ErrorCalls) = Len(bad)
               /\ catchAll = 1

C6_Witness ==
    /\ Installed
    /\ last.options.hasRules
    /\ Len(last.options.rules) = 3
    /\ last.options.rules[1].active /\ ~last.options.rules[1].valid
    /\ ~last.options.rules[2].active
    /\ last.options.rules[3].active /\ last.options.rules[3].valid
    /\ Len(requestListeners) = 1
    /\ requestListeners[1].rule = 3

(* C10 as stated: after an install for an enabled configuration exactly    *)
(* one catch-all hook is installed, for every configuration snapshot,      *)
(* the one without a rules field included.                                 *)
C10_CatchAllAfterInstall == Installed => catchAll = 1

(* C10 amended: after an install for an enabled configuration that has a   *)
(* rules field (many rules, no active rule, only failing rules, no rule)   *)
(* exactly one catch-all hook is installed; without a rules field the      *)
(* install adds no hook at all.                                            *)
C10_CatchAllWhenRulesPresent ==
    Installed
        => IF last.options.hasRules
           THEN catchAll = 1
           ELSE /\ catchAll = last.catchAllBefore
                /\ Len(requestListeners) = last.listenersBefore

C10_Witness ==
    /\ Installed
    /\ last.options.hasRules
    /\ Len(last.options.rules) = 2
    /\ \A k \in 1..2 : last.options.rules[k].active /\ ~last.options.rules[k].valid
    /\ requestListeners = <<>>
    /\ catchAll = 1

----------------------------------------------------------------------------
(* Properties of the record store (checked under SpecStore)                *)

Resolved == last.handler = "requestControlListener"

ResolvedRecord ==
    [tabId |-> last.tabId, type |-> "main_frame", url |-> last.url,
     target |-> last.target, timestamp |-> last.timestamp, rule |-> last.rule]

(* C7: each resolution appends its record at the end of the tab's sequence *)
(* (a new one-record sequence when the tab had none) and passes the new    *)
(* length to notify; so N consecutive resolutions from an absent sequence  *)
(* leave N records in append order and the k-th count is k.                *)
C7_AppendInOrder ==
    Resolved
        => /\ ~last.had => last.before = <<>>
           /\ last.tabId \in DOMAIN records
           /\ records[last.tabId] = last.before \o <<ResolvedRecord>>
           /\ calls[1] = NotifyCall(last.tabId, last.rule, Len(last.before) + 1)

C7_Witness ==
    /\ Resolved
    /\ Len(last.before) = 1
    /\ last.before[1] # ResolvedRecord
    /\ Len(records[last.tabId]) = 2
    /\ calls[1].count = 2

(* C8: every notify(tabId, rule, count) in the calls of the latest         *)
(* handler reflects the store that handler left: count is the length of    *)
(* the tab's sequence and rule is the rule of its newest record.           *)
C8_NotifyReflectsStore ==
    \A k \in 1..Len(calls) :
        calls[k].op = "notify"
            => /\ calls[k].tabId \in DOMAIN records
               /\ calls[k].count = Len(records[calls[k].tabId])
               /\ calls[k].rule = Last(records[calls[k].tabId]).rule

C8_Witness ==
    /\ last.handler = "resetRecords"
    /\ last.ran
    /\ Len(calls) = 1
    /\ calls[1].op = "notify"
    /\ calls[1].count = 2
    /\ records[calls[1].tabId][1].rule # records[calls[1].tabId][2].rule

(* C11: no tab's sequence ever holds two records with the same url, target *)
(* and timestamp, after any resolutions, navigation commits and tab closes. *)
C11_NoDuplicateRecords ==
    \A t \in DOMAIN records :
        \A i, j \in 1..Len(records[t]) :
            i # j => <<records[t][i].url, records[t][i].target, records[t][i].timestamp>>
                     # <<records[t][j].url, records[t][j].target, records[t][j].timestamp>>

(* C12: a tab-removed or navigation-commit event for a tab without a       *)
(* record sequence leaves the whole store unchanged and calls nothing on   *)
(* the notifier (a reconciliation runs only for a tab that has a           *)
(* sequence); a tab-removed event for a tab with a sequence deletes that   *)
(* tab's sequence and no other.                                            *)
C12_StaleTabNoOp ==
    /\ (last.handler = "removeRecords" /\ last.tabId \notin DOMAIN last.before)
          => records = last.before /\ calls = <<>>
    /\ (last.handler = "resetRecords" /\ ~last.ran
          /\ last.tabId \notin DOMAIN last.store)
          => records = last.store /\ calls = <<>>
    /\ (last.handler = "resetRecords" /\ last.ran)
          => last.details.tabId \in DOMAIN last.store
    /\ (last.handler = "removeRecords" /\ last.tabId \in DOMAIN last.before)
          => /\ DOMAIN records = DOMAIN last.before \ {last.tabId}
             /\ \A t \in DOMAIN records : records[t] = last.before[t]
             /\ calls = <<>>

C12_Witness ==
    /\ last.handler = "removeRecords"
    /\ last.tabId \notin DOMAIN last.before
    /\ DOMAIN last.before # {}
    /\ records = last.before

CommitFrame == IF last.ran THEN last.details.frameId ELSE last.frameId
CommitTabId == IF last.ran THEN last.details.tabId ELSE last.tabId

(* C13: a navigation commit with frameId # 0 never reconciles: the store,  *)
(* the sequence of the event's own tab included, is unchanged and neither  *)
(* notify nor clear is called.                                             *)
C13_SubframeCommitIgnored ==
    (last.handler = "resetRecords" /\ CommitFrame # 0)
        => /\ ~last.ran
           /\ records = last.store
           /\ calls = <<>>

C13_Witness ==
    /\ last.handler = "resetRecords"
    /\ CommitFrame # 0
    /\ CommitTabId \in DOMAIN last.store
    /\ Len(last.store[CommitTabId]) = 2
    /\ records = last.store

TouchesStore == last.handler \in {"requestControlListener", "removeRecords", "resetRecords"}

StoreBefore == IF last.handler = "removeRecords" THEN last.before ELSE last.store

EventTab ==
    IF last.handler = "resetRecords" THEN CommitTabId ELSE last.tabId

(* C14: a resolution, a navigation commit or a tab-removed event for tab T *)
(* leaves every other tab as it was: present or absent as before, with the *)
(* same records in the same order.                                         *)
C14_OtherTabsUntouched ==
    TouchesStore
        => \A t \in Tabs \ {EventTab} :
               /\ t \in DOMAIN records <=> t \in DOMAIN StoreBefore
               /\ t \in DOMAIN records => records[t] = StoreBefore[t]

C14_Witness ==
    /\ last.handler = "resetRecords"
    /\ last.ran
    /\ EventTab \notin DOMAIN records
    /\ \E t \in Tabs \ {EventTab} :
           /\ t \in DOMAIN records
           /\ records[t] = last.store[t]

(* C18: between handlers every tab present in the store maps to a          *)
(* non-empty sequence: a resolution for a tab without a sequence leaves a  *)
(* one-record sequence, and a reconciliation leaves either a non-empty     *)
(* kept chain or no entry for the tab.                                     *)
C18_NoEmptySequence ==
    /\ \A t \in DOMAIN records : Len(records[t]) > 0
    /\ (Resolved /\ ~last.had) => Len(records[last.tabId]) = 1
    /\ (last.handler = "resetRecords" /\ last.ran)
          => \/ last.details.tabId \notin DOMAIN records
             \/ Len(records[last.details.tabId]) \in 1..Len(last.before)

C18_Witness ==
    /\ last.handler = "resetRecords"
    /\ last.ran
    /\ last.details.tabId \in DOMAIN records
    /\ Len(last.before) = 2
    /\ Len(records[last.details.tabId]) = 1

----------------------------------------------------------------------------
(* Further properties of the reconciliation (checked under SpecReset)      *)

RECURSIVE IsSubsequence(_, _)
IsSubsequence(a, b) ==
    IF a = <<>> THEN TRUE
    ELSE IF b = <<>> THEN FALSE
    ELSE IF Head(a) = Head(b) THEN IsSubsequence(Tail(a), Tail(b))
    ELSE IsSubsequence(a, Tail(b))

(* C15: whenever a reconciliation keeps records, the new sequence is a     *)
(* subsequence of the previous one in the same order, every adjacent pair  *)
(* (p, q) of it has p.target = q.url with p.target non-empty, and its      *)
(* newest record satisfies the anchor condition of the commit.             *)
C15_KeptChainEndsInAnchor ==
    (Reconciled /\ CommitTab \in DOMAIN records)
        => LET keep == records[CommitTab]
           IN  /\ IsSubsequence(keep, last.before)
               /\ \A k \in 1..(Len(keep) - 1) :
                      keep[k].target # "" /\ keep[k].target = keep[k + 1].url
               /\ AnchorCondition(Last(keep))

(* C17: right after a reconciliation the tab has no sequence or one of at  *)
(* most 6 records, and never more records than before the commit, however  *)
(* many records were stored.                                               *)
C17_BoundedAfterCommit ==
    Reconciled
        => \/ CommitTab \notin DOMAIN records
           \/ /\ Len(records[CommitTab]) <= 6
              /\ Len(records[CommitTab]) <= Len(last.before)

C17_Witness ==
    /\ Reconciled
    /\ Len(last.before) = 10
    /\ CommitTab \in DOMAIN records
    /\ Len(records[CommitTab]) = 6

(* C19: a navigation commit delivered a second time right after the same   *)
(* commit was reconciled leaves the record store as the first delivery     *)
(* left it.                                                                 *)
C19_ReconcileIdempotent ==
    (last.handler = "resetRecords" /\ last.repeat) => records = last.store

----------------------------------------------------------------------------
(* Further properties of the configuration life cycle (C16 checked under   *)
(* Spec, C20 under SpecReload)                                             *)

InstalledRules == [k \in 1..Len(requestListeners) |-> requestListeners[k].rule]

(* the rules of a configuration that are to have a hook, in rule order *)
WantedRules(options) ==
    IF options.disabled \/ ~options.hasRules THEN <<>>
    ELSE LET good == SelectSeq(options.rules, LAMBDA d : d.active /\ d.valid)
         IN  [k \in 1..Len(good) |-> good[k].uuid]

(* C16: no rule ever has two per-rule hooks installed, also when           *)
(* configuration changes arrive while an earlier reload is still reading   *)
(* the configuration; and once no reload is pending the installed per-rule *)
(* hooks are exactly one per active compilable rule of the latest          *)
(* configuration, none left over from an earlier one.                      *)
C16_NoDuplicateHooks ==
    /\ \A i, j \in 1..Len(requestListeners) :
           i # j => requestListeners[i].rule # requestListeners[j].rule
    /\ (pending = <<>> /\ last.handler = "init")
          => InstalledRules = WantedRules(last.options)

(* C20: a reload whose configuration has disabled = false leaves the       *)
(* record store as it was, at the teardown (initOnChange) and at the       *)
(* install (init); only init with disabled = true empties the store.       *)
C20_EnabledReloadKeepsStore ==
    /\ last.handler = "initOnChange" => records = last.store
    /\ last.handler = "init"
          => IF last.options.disabled
             THEN DOMAIN records = {}
             ELSE records = last.store

C20_Witness ==
    /\ last.handler = "init"
    /\ ~last.options.disabled
    /\ 1 \in DOMAIN records
    /\ Len(records[1]) = 2
    /\ records = last.store

====
